---- MODULE Spec2Model ----
(***************************************************************************)
(* Model of src/src/packet.rs: the uTP packet header codec, the extension  *)
(* chain parser (Packet::try_from), the Packet container and to_bytes.     *)
(*                                                                         *)
(* Offsets are 0-based as in the source; At(b, i) is b[i] of the source.   *)
(* A u16/u32 is kept as the sequence of its base-256 digits, least         *)
(* significant digit first (a u32 does not fit the checker's integers).    *)
(* The header struct's memory image is taken in declaration order on a     *)
(* little-endian host, the layout the byte vectors of test_packet_encode   *)
(* pin down.                                                               *)
(***************************************************************************)
EXTENDS Integers, Sequences, FiniteSets, TLC

\* ------------------------------------------------------------------ bounds
MaxEntries == 2      \* TLV entries generated behind the header of an input
MaxPayload == 2      \* payload bytes generated behind the chain of an input
MaxOps == 2          \* mutating calls made on one packet

\* --------------------------------------------------------------- constants
HEADER_SIZE == 20

\* ------------------------------------------------------------ byte helpers
At(b, i) == IF i >= 0 /\ i < Len(b) THEN b[i + 1] ELSE 0

InBounds(b, i) == i >= 0 /\ i < Len(b)

\* buf[from..to] of the source (to exclusive)
Slice(b, from, to) == [k \in 1..(to - from) |-> b[from + k]]

Prefix(b, n) == [k \in 1..n |-> b[k]]

RECURSIVE BitAnd(_, _)
BitAnd(a, b) ==
    IF a = 0 \/ b = 0 THEN 0
    ELSE (IF a % 2 = 1 /\ b % 2 = 1 THEN 1 ELSE 0) + 2 * BitAnd(a \div 2, b \div 2)

RECURSIVE BitOr(_, _)
BitOr(a, b) ==
    IF a = 0 THEN b
    ELSE IF b = 0 THEN a
    ELSE (IF a % 2 = 1 \/ b % 2 = 1 THEN 1 ELSE 0) + 2 * BitOr(a \div 2, b \div 2)

Shl4(a) == (a * 16) % 256

Shr4(a) == a \div 16

Reverse(s) == [k \in 1..Len(s) |-> s[Len(s) + 1 - k]]

\* the digits of n as an unsigned integer of w bytes, least significant first
RECURSIVE ToDigits(_, _)
ToDigits(n, w) == IF w = 0 THEN <<>> ELSE <<n % 256>> \o ToDigits(n \div 256, w - 1)

\* u8_to_unsigned_be!(src, start, end, t): digit i of the result is src[start+i]
U8ToUnsignedBe(src, start, end) == [k \in 1..(end - start + 1) |-> At(src, start + k - 1)]

\* mutant: the value is stored in host order
ToBe_HostOrder(v) == v

\* to_be / from_be on a little-endian host: the bytes are swapped
ToBe(v) == Reverse(v)

FromBe(v) == Reverse(v)

\* the bytes an integer occupies in memory, lowest address first
NativeBytes(v) == v

\* ------------------------------------------------------------------ errors
NoError == [err |-> "", code |-> 0]

InvalidExtensionLength == [err |-> "InvalidExtensionLength", code |-> 0]

InvalidPacketLength == [err |-> "InvalidPacketLength", code |-> 0]

InvalidPacketType(n) == [err |-> "InvalidPacketType", code |-> n]

UnsupportedVersion == [err |-> "UnsupportedVersion", code |-> 0]

\* -------------------------------------------------------------- PacketType
PacketTypes == {"Data", "Fin", "State", "Reset", "Syn"}

PacketTypeTryFrom(original) ==
    CASE original = 0 -> [ok |-> TRUE, ty |-> "Data", e |-> NoError]
      [] original = 1 -> [ok |-> TRUE, ty |-> "Fin", e |-> NoError]
      [] original = 2 -> [ok |-> TRUE, ty |-> "State", e |-> NoError]
      [] original = 3 -> [ok |-> TRUE, ty |-> "Reset", e |-> NoError]
      [] original = 4 -> [ok |-> TRUE, ty |-> "Syn", e |-> NoError]
      [] OTHER -> [ok |-> FALSE, ty |-> "", e |-> InvalidPacketType(original)]

PacketTypeToU8(t) ==
    CASE t = "Data" -> 0
      [] t = "Fin" -> 1
      [] t = "State" -> 2
      [] t = "Reset" -> 3
      [] t = "Syn" -> 4

\* ----------------------------------------------------------- ExtensionType
ExtNone == [tag |-> "None", n |-> 0]

SelectiveAck == [tag |-> "SelectiveAck", n |-> 1]

Unknown(n) == [tag |-> "Unknown", n |-> n]

ExtensionTypeFrom(original) ==
    CASE original = 0 -> ExtNone
      [] original = 1 -> SelectiveAck
      [] OTHER -> Unknown(original)

ExtensionTypeToU8(original) ==
    CASE original.tag = "None" -> 0
      [] original.tag = "SelectiveAck" -> 1
      [] OTHER -> original.n

\* ------------------------------------------------------------ PacketHeader
PacketHeaderDefault ==
    [type_ver |-> BitOr(Shl4(PacketTypeToU8("Data")), 1),
     extension |-> 0,
     connection_id |-> ToDigits(0, 2),
     timestamp_microseconds |-> ToDigits(0, 4),
     timestamp_difference_microseconds |-> ToDigits(0, 4),
     wnd_size |-> ToDigits(0, 4),
     seq_nr |-> ToDigits(0, 2),
     ack_nr |-> ToDigits(0, 2)]

\* mutant: the old type nibble is not cleared
HeaderSetType_NoMask(h, t) ==
    [h EXCEPT !.type_ver = BitOr(Shl4(PacketTypeToU8(t)), h.type_ver)]

\* PacketHeader::set_type
HeaderSetType(h, t) ==
    LET version == BitAnd(15, h.type_ver)
    IN  [h EXCEPT !.type_ver = BitOr(Shl4(PacketTypeToU8(t)), version)]

HeaderGetType(h) == PacketTypeTryFrom(Shr4(h.type_ver))

HeaderGetVersion(h) == BitAnd(h.type_ver, 15)

\* Deref for PacketHeader: the struct's memory as a slice of HEADER_SIZE bytes
Deref(h) ==
    <<h.type_ver, h.extension>>
        \o NativeBytes(h.connection_id)
        \o NativeBytes(h.timestamp_microseconds)
        \o NativeBytes(h.timestamp_difference_microseconds)
        \o NativeBytes(h.wnd_size)
        \o NativeBytes(h.seq_nr)
        \o NativeBytes(h.ack_nr)

\* mutant: the version is looked for in the type nibble
WrongVersion_TypeNibble(b0) == Shr4(b0) # 1

\* line 210: the version check
WrongVersion(b0) == BitAnd(b0, 15) # 1

\* PacketHeader::try_from
PacketHeaderTryFrom(b) ==
    IF Len(b) < HEADER_SIZE
    THEN [ok |-> FALSE, e |-> InvalidPacketLength, panic |-> FALSE,
          header |-> PacketHeaderDefault]
    ELSE IF ~InBounds(b, 0)
    THEN [ok |-> FALSE, e |-> NoError, panic |-> TRUE, header |-> PacketHeaderDefault]
    ELSE IF WrongVersion(At(b, 0))
    THEN [ok |-> FALSE, e |-> UnsupportedVersion, panic |-> FALSE,
          header |-> PacketHeaderDefault]
    ELSE IF ~PacketTypeTryFrom(Shr4(At(b, 0))).ok
    THEN [ok |-> FALSE, e |-> PacketTypeTryFrom(Shr4(At(b, 0))).e, panic |-> FALSE,
          header |-> PacketHeaderDefault]
    ELSE IF \E i \in 1..19 : ~InBounds(b, i)
    THEN [ok |-> FALSE, e |-> NoError, panic |-> TRUE, header |-> PacketHeaderDefault]
    ELSE [ok |-> TRUE, e |-> NoError, panic |-> FALSE,
          header |->
            [type_ver |-> At(b, 0),
             extension |-> At(b, 1),
             connection_id |-> U8ToUnsignedBe(b, 2, 3),
             timestamp_microseconds |-> U8ToUnsignedBe(b, 4, 7),
             timestamp_difference_microseconds |-> U8ToUnsignedBe(b, 8, 11),
             wnd_size |-> U8ToUnsignedBe(b, 12, 15),
             seq_nr |-> U8ToUnsignedBe(b, 16, 17),
             ack_nr |-> U8ToUnsignedBe(b, 18, 19)]]

\* ------------------------------------------------------------------ Packet
Extension(ty, data) == [ty |-> ty, data |-> data]

ExtensionLen(ext) == Len(ext.data)

RECURSIVE ExtLenFold(_)
ExtLenFold(exts) ==
    IF exts = <<>> THEN 0
    ELSE ExtLenFold(Prefix(exts, Len(exts) - 1)) + ExtensionLen(exts[Len(exts)]) + 2

\* mutant: the two bytes in front of each extension are not counted
PacketLen_DataOnly(p) ==
    HEADER_SIZE + Len(p.payload) + ExtLenFold(p.extensions) - 2 * Len(p.extensions)

\* Packet::len
PacketLen(p) == HEADER_SIZE + Len(p.payload) + ExtLenFold(p.extensions)

\* `extension.len() as u8`
AsU8(n) == n % 256

\* the loop of to_bytes from its k-th extension on
RECURSIVE EncodeExtensions(_, _)
EncodeExtensions(exts, k) ==
    IF k > Len(exts) THEN <<>>
    ELSE <<(IF k < Len(exts) THEN ExtensionTypeToU8(exts[k + 1].ty) ELSE 0),
           AsU8(ExtensionLen(exts[k]))>>
            \o exts[k].data
            \o EncodeExtensions(exts, k + 1)

\* Encodable for Packet: to_bytes
ToBytes(p) == Deref(p.header) \o EncodeExtensions(p.extensions, 1) \o p.payload

PacketNew == [header |-> PacketHeaderDefault, extensions |-> <<>>, payload |-> <<>>]

PacketWithPayload(payload) ==
    [header |-> HeaderSetType(PacketHeaderDefault, "Data"),
     extensions |-> <<>>,
     payload |-> [k \in 1..Len(payload) |-> payload[k]]]

\* make_getter!(seq_nr, u16, u16) and the five other getters
GetSeqNr(p) == FromBe(p.header.seq_nr)

GetAckNr(p) == FromBe(p.header.ack_nr)

GetConnectionId(p) == FromBe(p.header.connection_id)

GetWndSize(p) == FromBe(p.header.wnd_size)

GetTimestampMicroseconds(p) == FromBe(p.header.timestamp_microseconds)

GetTimestampDifferenceMicroseconds(p) ==
    FromBe(p.header.timestamp_difference_microseconds)

\* --------------------------------------------------- Packet::try_from, parts
\* line 371: an extension is announced and nothing follows the header
DanglingFirstExtension(b, extension_type) ==
    Len(b) = HEADER_SIZE /\ extension_type # ExtNone

\* line 376: the loop condition
LoopCond(b, idx, extension_type) == idx < Len(b) /\ extension_type # ExtNone

\* mutant: one byte is taken to be enough for an entry
TooShortForEntry_OffByOne(b, idx) == Len(b) < idx + 1

\* line 377: fewer than 2 bytes remain for the type and length pair
TooShortForEntry(b, idx) == Len(b) < idx + 2

\* mutant: a length of zero is let through
BadExtensionLength_ZeroAllowed(b, len, payload_start) ==
    len % 4 # 0 \/ payload_start > Len(b)

\* line 388: the validity check of the extension length
BadExtensionLength(b, len, payload_start) ==
    len = 0 \/ len % 4 # 0 \/ payload_start > Len(b)

\* mutant: only entries of a known type are pushed
Retained_KnownOnly(extension_type) == extension_type = SelectiveAck

\* line 392: the entries that are pushed onto the extension vector
Retained(extension_type) == extension_type # ExtNone

\* lines 377-401: one iteration of the loop
LoopBody(b, idx, extension_type, exts) ==
    LET stay == [ret |-> "err", e |-> NoError, index |-> idx,
                 extension_type |-> extension_type, extensions |-> exts]
    IN
    IF TooShortForEntry(b, idx)
    THEN [stay EXCEPT !.e = InvalidPacketLength]
    ELSE IF ~InBounds(b, idx + 1)
    THEN [stay EXCEPT !.ret = "panic"]
    ELSE
        LET len == At(b, idx + 1)
            extension_start == idx + 2
            payload_start == extension_start + len
        IN
        IF BadExtensionLength(b, len, payload_start)
        THEN [stay EXCEPT !.e = InvalidExtensionLength]
        ELSE IF Retained(extension_type) /\ payload_start > Len(b)
        THEN [stay EXCEPT !.ret = "panic"]
        ELSE IF ~InBounds(b, idx)
        THEN [stay EXCEPT !.ret = "panic"]
        ELSE [ret |-> "continue",
              e |-> NoError,
              index |-> idx + len + 2,
              extension_type |-> ExtensionTypeFrom(At(b, idx)),
              extensions |->
                  IF Retained(extension_type)
                  THEN Append(exts, Extension(extension_type,
                                              Slice(b, extension_start, payload_start)))
                  ELSE exts]

\* mutant: a pending extension is not looked for
PendingExtension_Ignored(extension_type) == FALSE

\* line 404: an extension is still pending when the loop has ended
PendingExtension(extension_type) == extension_type # ExtNone

\* lines 408-412: the payload is what follows the chain
PayloadOf(b, idx) ==
    LET payload_length == Len(b) - idx
    IN  IF payload_length > 0 THEN Slice(b, idx, Len(b)) ELSE <<>>

\* lines 376-418 as a function of the buffer and the loop's locals
RECURSIVE TryFromLoop(_, _, _, _, _)
TryFromLoop(b, h, idx, extension_type, exts) ==
    LET none == [ok |-> FALSE, panic |-> FALSE, e |-> NoError,
                 packet |-> [header |-> h, extensions |-> <<>>, payload |-> <<>>]]
    IN
    IF LoopCond(b, idx, extension_type)
    THEN LET r == LoopBody(b, idx, extension_type, exts)
         IN  CASE r.ret = "continue" ->
                      TryFromLoop(b, h, r.index, r.extension_type, r.extensions)
               [] r.ret = "err" -> [none EXCEPT !.e = r.e]
               [] OTHER -> [none EXCEPT !.panic = TRUE]
    ELSE IF PendingExtension(extension_type)
    THEN [none EXCEPT !.e = InvalidPacketLength]
    ELSE IF Len(b) - idx < 0
    THEN [none EXCEPT !.panic = TRUE]
    ELSE [ok |-> TRUE, panic |-> FALSE, e |-> NoError,
          packet |-> [header |-> h, extensions |-> exts, payload |-> PayloadOf(b, idx)]]

\* Packet::try_from as a function of the buffer
TryFrom(b) ==
    LET h == PacketHeaderTryFrom(b)
        none == [ok |-> FALSE, panic |-> FALSE, e |-> NoError, packet |-> PacketNew]
    IN  IF h.panic THEN [none EXCEPT !.panic = TRUE]
        ELSE IF ~h.ok THEN [none EXCEPT !.e = h.e]
        ELSE IF DanglingFirstExtension(b, ExtensionTypeFrom(h.header.extension))
        THEN [none EXCEPT !.e = InvalidExtensionLength]
        ELSE TryFromLoop(b, h.header, HEADER_SIZE,
                         ExtensionTypeFrom(h.header.extension), <<>>)

\* ------------------------------------------------------------------ inputs
TypeVers == {1, 33, 65, 81, 241, 0, 2, 82}

ExtCodes == {0, 1, 2}

Lens == {0, 4, 6, 8}

HeaderBody == <<65, 168, 153, 47, 208, 42, 159, 74, 38, 33, 0, 16, 0, 0, 58, 242, 108, 121>>

EntryBytes(next, len, ord) == <<next, len>> \o [k \in 1..len |-> 16 * ord + k]

\* chains of at most n entries; an entry that announces no successor ends its chain
RECURSIVE Chains(_)
Chains(n) ==
    IF n = 0 THEN {<<>>}
    ELSE {<<>>} \cup
         {EntryBytes(next, len, n) \o rest :
             next \in {0}, len \in Lens, rest \in {<<>>}} \cup
         {EntryBytes(next, len, n) \o rest :
             next \in ExtCodes \ {0}, len \in Lens, rest \in Chains(n - 1)}

Payload(n) == [k \in 1..n |-> 200 + k]

Prefixes(b) == {Prefix(b, n) : n \in 0..Len(b)}

\* buffers shorter than a header, and headers of every type and version
HeaderInputs ==
    UNION {Prefixes(<<tv, x>> \o HeaderBody) : tv \in {33, 82}, x \in {0}}
    \cup {<<tv, x>> \o HeaderBody \o t :
            tv \in TypeVers, x \in {0, 1}, t \in {<<>>, EntryBytes(0, 4, 1), <<7>>}}

\* a good header that announces no extension, followed by a payload
PlainInputs ==
    {<<33, 0>> \o HeaderBody \o t :
        t \in Prefixes(Payload(MaxPayload)) \cup {EntryBytes(1, 4, 1)}}

\* a good header that announces an extension, followed by every prefix of a
\* chain and a payload
ChainInputs ==
    UNION {{<<33, x>> \o HeaderBody \o t : t \in Prefixes(c \o Payload(MaxPayload))} :
            x \in ExtCodes \ {0}, c \in Chains(MaxEntries)}

\* the buffer of tests::test_decode_packet_with_extension
ExtensionTestBuf ==
    <<33, 1, 65, 167, 0, 0, 0, 0, 0, 0, 0, 0, 0, 0, 5, 220, 171, 83, 58, 245,
      0, 4, 0, 0, 0, 0>>

\* the buffer of tests::test_decode_packet_with_unknown_extensions
UnknownExtensionsTestBuf ==
    <<33, 1, 65, 167, 0, 0, 0, 0, 0, 0, 0, 0, 0, 0, 5, 220, 171, 83, 58, 245,
      255, 4, 0, 0, 0, 0,
      0, 4, 0, 0, 0, 0>>

TestInputs == {ExtensionTestBuf, UnknownExtensionsTestBuf}

Inputs == HeaderInputs \cup PlainInputs \cup ChainInputs \cup TestInputs

PayloadArgs == {<<>>, <<72, 105>>}

\* arguments of set_sack: too short, no multiple of 4, 4 and 8 bytes, and one
\* whose length does not fit the length byte of an entry
SackArgs ==
    {<<>>, <<1, 2, 3>>, <<1, 2, 3, 4>>, <<1, 2, 3, 4, 5, 6>>, <<8, 7, 6, 5, 4, 3, 2, 1>>,
     [k \in 1..256 |-> k % 256]}

Values16 == {16808, 1}

Values32 == {1048576, 15270793}

\* ------------------------------------------------------------------- state
VARIABLES
    pc,              \* "idle", "loop" (inside try_from), "ready" (a Packet exists),
                     \* "failed" (try_from gave Err), "panicked", "encoded"
    buf,             \* the buffer given to try_from
    header,          \* try_from's local `header`
    index,           \* try_from's local `index`
    extension_type,  \* try_from's local `extension_type`
    extensions,      \* try_from's local `extensions`
    result,          \* the error try_from returned, NoError otherwise
    packet,          \* the Packet value
    out,             \* the bytes to_bytes returned
    origin,          \* how the packet was made: "new", "with_payload", "parsed"
    last,            \* the last call made
    ops              \* the number of mutating calls made on the packet

vars == <<pc, buf, header, index, extension_type, extensions, result, packet, out,
          origin, last, ops>>

Init ==
    /\ pc = "idle"
    /\ buf = <<>>
    /\ header = PacketHeaderDefault
    /\ index = 0
    /\ extension_type = ExtNone
    /\ extensions = <<>>
    /\ result = NoError
    /\ packet = PacketNew
    /\ out = <<>>
    /\ origin = "none"
    /\ last = "none"
    /\ ops = 0

parserLocals == <<header, index, extension_type, extensions>>

\* Packet::new
New ==
    /\ pc = "idle"
    /\ packet' = PacketNew
    /\ pc' = "ready"
    /\ origin' = "new"
    /\ last' = "new"
    /\ UNCHANGED <<buf, parserLocals, result, out, ops>>

\* Packet::with_payload
WithPayload(payload) ==
    /\ pc = "idle"
    /\ packet' = PacketWithPayload(payload)
    /\ pc' = "ready"
    /\ origin' = "with_payload"
    /\ last' = "with_payload"
    /\ UNCHANGED <<buf, parserLocals, result, out, ops>>

\* Packet::try_from, lines 365-373: the header and the locals of the loop
TryFromBegin(x) ==
    /\ pc = "idle"
    /\ buf' = x
    /\ origin' = "parsed"
    /\ last' = "try_from"
    /\ LET h == PacketHeaderTryFrom(x)
       IN  IF h.panic
           THEN /\ pc' = "panicked"
                /\ UNCHANGED <<parserLocals, result>>
           ELSE IF ~h.ok
           THEN /\ pc' = "failed"
                /\ result' = h.e
                /\ UNCHANGED parserLocals
           ELSE /\ header' = h.header
                /\ extensions' = <<>>
                /\ index' = HEADER_SIZE
                /\ extension_type' = ExtensionTypeFrom(h.header.extension)
                /\ IF DanglingFirstExtension(x, ExtensionTypeFrom(h.header.extension))
                   THEN pc' = "failed" /\ result' = InvalidExtensionLength
                   ELSE pc' = "loop" /\ UNCHANGED result
    /\ UNCHANGED <<packet, out, ops>>

\* Packet::try_from, lines 376-402: one iteration of the loop
ExtensionLoop ==
    /\ pc = "loop"
    /\ LoopCond(buf, index, extension_type)
    /\ LET r == LoopBody(buf, index, extension_type, extensions)
       IN  /\ index' = r.index
           /\ extension_type' = r.extension_type
           /\ extensions' = r.extensions
           /\ result' = r.e
           /\ pc' = CASE r.ret = "continue" -> "loop"
                      [] r.ret = "err" -> "failed"
                      [] OTHER -> "panicked"
    /\ UNCHANGED <<buf, header, packet, out, origin, last, ops>>

\* Packet::try_from, lines 404-418: after the loop
TryFromFinish ==
    /\ pc = "loop"
    /\ ~LoopCond(buf, index, extension_type)
    /\ IF PendingExtension(extension_type)
       THEN /\ pc' = "failed"
            /\ result' = InvalidPacketLength
            /\ UNCHANGED packet
       ELSE IF Len(buf) - index < 0
       THEN /\ pc' = "panicked"
            /\ UNCHANGED <<result, packet>>
       ELSE /\ pc' = "ready"
            /\ packet' = [header |-> header, extensions |-> extensions,
                          payload |-> PayloadOf(buf, index)]
            /\ UNCHANGED result
    /\ UNCHANGED <<buf, parserLocals, out, origin, last, ops>>

\* ------------------------------------------------- calls on a Packet value
Mutable == pc = "ready" /\ ops < MaxOps

Mutated(op) ==
    /\ last' = op
    /\ ops' = ops + 1
    /\ UNCHANGED <<pc, buf, parserLocals, result, out, origin>>

\* Packet::set_type
SetType(t) ==
    /\ Mutable
    /\ packet' = [packet EXCEPT !.header = HeaderSetType(packet.header, t)]
    /\ Mutated("set_type")

\* make_setter!(set_seq_nr, seq_nr, u16)
SetSeqNr(new) ==
    /\ Mutable
    /\ packet' = [packet EXCEPT !.header.seq_nr = ToBe(new)]
    /\ Mutated("set_seq_nr")

\* make_setter!(set_ack_nr, ack_nr, u16)
SetAckNr(new) ==
    /\ Mutable
    /\ packet' = [packet EXCEPT !.header.ack_nr = ToBe(new)]
    /\ Mutated("set_ack_nr")

\* make_setter!(set_connection_id, connection_id, u16)
SetConnectionId(new) ==
    /\ Mutable
    /\ packet' = [packet EXCEPT !.header.connection_id = ToBe(new)]
    /\ Mutated("set_connection_id")

\* make_setter!(set_wnd_size, wnd_size, u32)
SetWndSize(new) ==
    /\ Mutable
    /\ packet' = [packet EXCEPT !.header.wnd_size = ToBe(new)]
    /\ Mutated("set_wnd_size")

\* make_setter!(set_timestamp_microseconds, timestamp_microseconds, u32)
SetTimestampMicroseconds(new) ==
    /\ Mutable
    /\ packet' = [packet EXCEPT !.header.timestamp_microseconds = ToBe(new)]
    /\ Mutated("set_timestamp_microseconds")

\* make_setter!(set_timestamp_difference_microseconds, ..., u32)
SetTimestampDifferenceMicroseconds(new) ==
    /\ Mutable
    /\ packet' = [packet EXCEPT !.header.timestamp_difference_microseconds = ToBe(new)]
    /\ Mutated("set_timestamp_difference_microseconds")

\* mutant: the multiple-of-4 assertion is missing
SackAsserts_NoMultiple(bv) == Len(bv) >= 4

\* lines 313-314: the two assertions of set_sack
SackAsserts(bv) == Len(bv) >= 4 /\ Len(bv) % 4 = 0

\* lines 316-321: what set_sack does once its assertions have passed
PushSack(p, bv) ==
    [p EXCEPT !.extensions = Append(p.extensions, Extension(SelectiveAck, bv)),
              !.header.extension =
                  BitOr(p.header.extension, ExtensionTypeToU8(SelectiveAck))]

\* Packet::set_sack
SetSack(bv) ==
    /\ Mutable
    /\ last' = "set_sack"
    /\ ops' = ops + 1
    /\ IF SackAsserts(bv)
       THEN packet' = PushSack(packet, bv) /\ UNCHANGED pc
       ELSE pc' = "panicked" /\ UNCHANGED packet
    /\ UNCHANGED <<buf, parserLocals, result, out, origin>>

\* assignment of the public field `payload`
SetPayload(payload) ==
    /\ Mutable
    /\ packet' = [packet EXCEPT !.payload = payload]
    /\ Mutated("payload")

\* Encodable::to_bytes called on the packet
Encode ==
    /\ pc = "ready"
    /\ out' = ToBytes(packet)
    /\ pc' = "encoded"
    /\ last' = "to_bytes"
    /\ UNCHANGED <<buf, parserLocals, result, packet, origin, ops>>

Next ==
    \/ New
    \/ \E payload \in PayloadArgs : WithPayload(payload)
    \/ pc = "idle" /\ \E x \in Inputs : TryFromBegin(x)
    \/ ExtensionLoop
    \/ TryFromFinish
    \/ \E t \in PacketTypes : SetType(t)
    \/ \E v \in Values16 : SetSeqNr(ToDigits(v, 2))
    \/ \E v \in Values16 : SetAckNr(ToDigits(v, 2))
    \/ \E v \in Values16 : SetConnectionId(ToDigits(v, 2))
    \/ \E v \in Values32 : SetWndSize(ToDigits(v, 4))
    \/ \E v \in Values32 : SetTimestampMicroseconds(ToDigits(v, 4))
    \/ \E v \in Values32 : SetTimestampDifferenceMicroseconds(ToDigits(v, 4))
    \/ \E bv \in SackArgs : SetSack(bv)
    \/ \E payload \in PayloadArgs : SetPayload(payload)
    \/ Encode

Spec == Init /\ [][Next]_vars

\* ------------------------------------------------------------------- types
TypeOK ==
    /\ pc \in {"idle", "loop", "ready", "failed", "panicked", "encoded"}
    /\ index \in 0..Len(buf) \cup {0}
    /\ ops \in 0..MaxOps

\* ------------------------------------------------- helpers of the claims
JustParsed == origin = "parsed" /\ ops = 0 /\ pc \in {"ready", "encoded"}

InTryFrom == last = "try_from"

HasPacket == pc \in {"ready", "encoded"}

GoodHeader(b) == Len(b) >= 20 /\ b[1] % 16 = 1 /\ b[1] \div 16 \in 0..4

\* the offset at which the i-th retained extension starts on the wire
RECURSIVE EntryStart(_, _)
EntryStart(exts, i) ==
    IF i = 1 THEN 20 ELSE EntryStart(exts, i - 1) + Len(exts[i - 1].data) + 2

\* the byte that announces the type of the i-th entry of the chain
Announce(b, exts, i) == IF i = 1 THEN At(b, 1) ELSE At(b, EntryStart(exts, i - 1))

RECURSIVE SumExt(_, _)
SumExt(exts, i) ==
    IF i > Len(exts) THEN 0 ELSE Len(exts[i].data) + 2 + SumExt(exts, i + 1)

\* ------------------------------------------------------------------ claims

\* C1: round trip. A buffer that Packet::try_from accepts is reproduced by
\* to_bytes byte for byte and with the same length, also when it holds
\* extension entries of Unknown type.
C1_RoundTrip ==
    (JustParsed /\ pc = "encoded") => (out = buf /\ Len(out) = Len(buf))

C1_Witness ==
    /\ JustParsed
    /\ pc = "encoded"
    /\ \E i \in 1..Len(packet.extensions) : packet.extensions[i].ty.tag = "Unknown"
    /\ packet.payload # <<>>

\* C2: Packet::try_from is total. No read of the header parse or of the loop is
\* out of bounds (an out-of-bounds read panics), the cursor stays inside the
\* buffer and strictly increases from one iteration to the next, the result is a
\* Packet or one of the four errors, and the empty buffer gives
\* InvalidPacketLength.
C2_State ==
    InTryFrom =>
        /\ pc \in {"loop", "failed", "ready"}
        /\ pc = "loop" => (index >= HEADER_SIZE /\ index <= Len(buf))
        /\ pc = "failed" =>
              \/ result \in {InvalidPacketLength, InvalidExtensionLength, UnsupportedVersion}
              \/ \E c \in 0..15 : result = InvalidPacketType(c)
        /\ pc = "ready" => result = NoError
        /\ buf = <<>> => (pc = "failed" /\ result = InvalidPacketLength)

C2_CursorIncreases == (pc = "loop" /\ pc' = "loop") => index' > index

C2_TryFromTotal == [](C2_State) /\ [][C2_CursorIncreases]_vars

C2_Witness ==
    /\ InTryFrom
    /\ pc = "failed"
    /\ result = InvalidPacketLength
    /\ index > HEADER_SIZE
    /\ Len(buf) = index + 1

C4_HeaderValidation ==
    InTryFrom =>
        LET low == At(buf, 0) % 16
            high == At(buf, 0) \div 16
        IN  /\ Len(buf) < 20 => (pc = "failed" /\ result = InvalidPacketLength)
            /\ (Len(buf) >= 20 /\ low # 1) =>
                  (pc = "failed" /\ result = UnsupportedVersion)
            /\ (Len(buf) >= 20 /\ low = 1 /\ high \notin 0..4) =>
                  (pc = "failed" /\ result = InvalidPacketType(high))
            /\ (Len(buf) >= 20 /\ low = 1 /\ high \in 0..4) =>
                  /\ result.err \notin {"UnsupportedVersion", "InvalidPacketType"}
                  /\ header.type_ver = At(buf, 0)
                  /\ (pc = "failed" /\ result = InvalidPacketLength) => Len(buf) > 20

C4_Witness ==
    /\ InTryFrom
    /\ Len(buf) >= 20
    /\ At(buf, 0) % 16 # 1
    /\ At(buf, 0) \div 16 \notin 0..4
    /\ result = UnsupportedVersion

\* C5: per-entry validation. For an entry reached while the current extension
\* type is not None (SelectiveAck or Unknown), fewer than 2 bytes left gives
\* InvalidPacketLength; else a length byte that is 0 or no multiple of 4 gives
\* InvalidExtensionLength; else an entry that ends behind the buffer gives
\* InvalidExtensionLength; else the entry is consumed. A failure returns the
\* error and no packet.
C5_Entry ==
    (pc = "loop" /\ index < Len(buf) /\ extension_type # ExtNone) =>
        LET remaining == Len(buf) - index
            length == At(buf, index + 1)
        IN  /\ remaining < 2 => (pc' = "failed" /\ result' = InvalidPacketLength)
            /\ (remaining >= 2 /\ (length = 0 \/ length % 4 # 0)) =>
                  (pc' = "failed" /\ result' = InvalidExtensionLength)
            /\ (remaining >= 2 /\ length # 0 /\ length % 4 = 0
                    /\ index + 2 + length > Len(buf)) =>
                  (pc' = "failed" /\ result' = InvalidExtensionLength)
            /\ (remaining >= 2 /\ length # 0 /\ length % 4 = 0
                    /\ index + 2 + length <= Len(buf)) =>
                  (pc' = "loop" /\ index' = index + 2 + length /\ result' = NoError)
            /\ pc' = "failed" => (packet' = PacketNew /\ out' = <<>>)

C5_EntryValidation == [][C5_Entry]_vars

C5_Witness ==
    /\ InTryFrom
    /\ pc = "failed"
    /\ result = InvalidExtensionLength
    /\ extension_type.tag = "Unknown"
    /\ index > HEADER_SIZE
    /\ index + 2 <= Len(buf)
    /\ At(buf, index + 1) = 0

\* C6: an announced extension without bytes is rejected. A buffer of exactly
\* 20 bytes whose byte 1 is not 0 gives InvalidExtensionLength; a cursor at the
\* end of the buffer behind consumed entries whose last next-type byte is not 0
\* gives InvalidPacketLength; an accepted chain ends with a next-type byte of 0
\* (or byte 1 of the header is 0).
C6_State ==
    /\ (InTryFrom /\ GoodHeader(buf) /\ Len(buf) = 20 /\ At(buf, 1) # 0) =>
          (pc = "failed" /\ result = InvalidExtensionLength)
    /\ JustParsed =>
          /\ extension_type = ExtNone
          /\ IF packet.extensions = <<>>
             THEN At(buf, 1) = 0
             ELSE At(buf, EntryStart(packet.extensions, Len(packet.extensions))) = 0

C6_Truncated ==
    (pc = "loop" /\ index = Len(buf) /\ index > HEADER_SIZE /\ extension_type # ExtNone) =>
        (pc' = "failed" /\ result' = InvalidPacketLength)

C6_DanglingRejected == [](C6_State) /\ [][C6_Truncated]_vars

C6_Witness ==
    /\ InTryFrom
    /\ pc = "failed"
    /\ result = InvalidPacketLength
    /\ index = Len(buf)
    /\ index > HEADER_SIZE
    /\ Len(extensions) >= 1

\* C7: length accounting. For every packet made by new(), with_payload() or a
\* parse and changed by setters, set_type, set_sack and payload assignment,
\* len() is 20 + payload.length + the sum of (data.length + 2) over the retained
\* extensions and is the number of bytes to_bytes emits; for a packet just
\* parsed from x, len() is x.length.
C7_LengthAccounting ==
    /\ HasPacket =>
          /\ PacketLen(packet) = 20 + Len(packet.payload) + SumExt(packet.extensions, 1)
          /\ PacketLen(packet) = Len(ToBytes(packet))
    /\ pc = "encoded" => Len(out) = PacketLen(packet)
    /\ JustParsed => PacketLen(packet) = Len(buf)

C7_Witness ==
    /\ pc = "encoded"
    /\ origin = "parsed"
    /\ ops = MaxOps
    /\ Len(packet.extensions) >= 3
    /\ packet.payload # <<>>
    /\ Len(out) # Len(buf)

\* C8: extension data length. Every retained extension of a packet made by a
\* parse and by set_sack calls has a data length that is a positive multiple of
\* 4; set_sack called with a length below 4 or no multiple of 4 aborts and
\* leaves the extension list and the header's first-extension byte as they were.
C8_State ==
    pc \in {"ready", "encoded", "panicked"} =>
        \A i \in 1..Len(packet.extensions) :
            /\ Len(packet.extensions[i].data) > 0
            /\ Len(packet.extensions[i].data) % 4 = 0

C8_SetSack ==
    \A bv \in SackArgs :
        (SetSack(bv) /\ (Len(bv) < 4 \/ Len(bv) % 4 # 0)) =>
            /\ pc' = "panicked"
            /\ packet'.extensions = packet.extensions
            /\ packet'.header.extension = packet.header.extension

C8_ExtensionLength == [](C8_State) /\ [][C8_SetSack]_vars

C8_Witness ==
    /\ pc = "panicked"
    /\ last = "set_sack"
    /\ origin = "parsed"
    /\ ops = 2
    /\ Len(packet.extensions) >= 2

\* C9: serialized chain layout. to_bytes emits the 20 bytes of the header, then
\* for the i-th retained extension, in insertion order, the type code of the
\* (i+1)-th one (0 for the last), a byte with its data length and its data, then
\* the payload and nothing else; a call on the packet never reorders the
\* extensions.
C9_State ==
    pc = "encoded" =>
        LET exts == packet.extensions
            n == Len(exts)
            end == EntryStart(exts, n + 1)
        IN  /\ Len(out) = end + Len(packet.payload)
            /\ Prefix(out, HEADER_SIZE) = Deref(packet.header)
            /\ \A i \in 1..n :
                  LET at == EntryStart(exts, i)
                  IN  /\ At(out, at) =
                            (IF i < n THEN ExtensionTypeToU8(exts[i + 1].ty) ELSE 0)
                      /\ At(out, at + 1) = Len(exts[i].data)
                      /\ Slice(out, at + 2, at + 2 + Len(exts[i].data)) = exts[i].data
            /\ Slice(out, end, Len(out)) = packet.payload

C9_OrderKept ==
    (pc = "ready" /\ pc' \in {"ready", "encoded"}) =>
        /\ Len(packet'.extensions) >= Len(packet.extensions)
        /\ Prefix(packet'.extensions, Len(packet.extensions)) = packet.extensions

C9_ChainLayout == [](C9_State) /\ [][C9_OrderKept]_vars

\* C10: header invariant. In every packet made by new(), with_payload() or a
\* parse and changed by set_type, the numeric setters and set_sack, the low
\* nibble of header byte 0 is 1 and the high nibble is in 0..4, so get_type()
\* finds a PacketType; set_type(t) sets the high nibble to the code of t and
\* changes nothing else; new() and with_payload() give type Data, version 1 and
\* numeric fields of zero.
C10_State ==
    /\ HasPacket =>
          /\ packet.header.type_ver % 16 = 1
          /\ packet.header.type_ver \div 16 \in 0..4
          /\ HeaderGetType(packet.header).ok
          /\ HeaderGetVersion(packet.header) = 1
    /\ last \in {"new", "with_payload"} =>
          /\ HeaderGetType(packet.header).ty = "Data"
          /\ Deref(packet.header) = <<1>> \o [k \in 1..19 |-> 0]
          /\ packet.extensions = <<>>

C10_SetType ==
    \A t \in PacketTypes :
        SetType(t) =>
            /\ packet'.header.type_ver \div 16 = PacketTypeToU8(t)
            /\ packet'.header.type_ver % 16 = packet.header.type_ver % 16
            /\ HeaderGetType(packet'.header).ty = t
            /\ [packet'.header EXCEPT !.type_ver = 0] = [packet.header EXCEPT !.type_ver = 0]
            /\ packet'.extensions = packet.extensions
            /\ packet'.payload = packet.payload

C10_HeaderInvariant == [](C10_State) /\ [][C10_SetType]_vars

C10_Witness ==
    /\ last = "set_type"
    /\ origin = "parsed"
    /\ ops = 2
    /\ packet.header.type_ver \div 16 # At(buf, 0) \div 16
    /\ packet.header.type_ver \div 16 = 4
    /\ packet.extensions # <<>>

\* the big-endian bytes of the number v in a field of w bytes
RECURSIVE BigEndian(_, _)
BigEndian(v, w) == IF w = 0 THEN <<>> ELSE BigEndian(v \div 256, w - 1) \o <<v % 256>>

\* the number a getter's result stands for
RECURSIVE NumOf(_)
NumOf(d) == IF d = <<>> THEN 0 ELSE d[1] + 256 * NumOf(Tail(d))

\* the w bytes of b at offset off, last byte first: the digits of their
\* big-endian value
WireDigits(b, off, w) == [k \in 1..w |-> At(b, off + w - k)]

\* a setter call with v took p to q: the getter's result got stands for v, the
\* bytes of to_bytes at off are v big-endian and nothing else differs
SetterExact(p, q, off, w, v, got) ==
    /\ NumOf(got) = v
    /\ Len(got) = w
    /\ Slice(ToBytes(q), off, off + w) = BigEndian(v, w)
    /\ \A i \in 0..(HEADER_SIZE - 1) :
          (i < off \/ i >= off + w) => At(ToBytes(q), i) = At(ToBytes(p), i)
    /\ q.extensions = p.extensions
    /\ q.payload = p.payload
    /\ Len(ToBytes(q)) = Len(ToBytes(p))

\* C11: the header field codec is exact and big-endian. After a setter is called
\* with v the getter returns v, to_bytes carries v big-endian at the field's
\* offset (2, 16, 18 for the 16-bit fields, 4, 8, 12 for the 32-bit ones) and the
\* other header bytes, the extensions and the payload are as before; for a parsed
\* buffer each getter returns the big-endian value of the bytes at that offset.
C11_Setters ==
    /\ \A v \in Values16 :
          /\ SetConnectionId(ToDigits(v, 2)) =>
                SetterExact(packet, packet', 2, 2, v, GetConnectionId(packet'))
          /\ SetSeqNr(ToDigits(v, 2)) =>
                SetterExact(packet, packet', 16, 2, v, GetSeqNr(packet'))
          /\ SetAckNr(ToDigits(v, 2)) =>
                SetterExact(packet, packet', 18, 2, v, GetAckNr(packet'))
    /\ \A v \in Values32 :
          /\ SetTimestampMicroseconds(ToDigits(v, 4)) =>
                SetterExact(packet, packet', 4, 4, v, GetTimestampMicroseconds(packet'))
          /\ SetTimestampDifferenceMicroseconds(ToDigits(v, 4)) =>
                SetterExact(packet, packet', 8, 4, v,
                            GetTimestampDifferenceMicroseconds(packet'))
          /\ SetWndSize(ToDigits(v, 4)) =>
                SetterExact(packet, packet', 12, 4, v, GetWndSize(packet'))

C11_Parsed ==
    JustParsed =>
        /\ GetConnectionId(packet) = WireDigits(buf, 2, 2)
        /\ NumOf(GetConnectionId(packet)) = 256 * At(buf, 2) + At(buf, 3)
        /\ GetTimestampMicroseconds(packet) = WireDigits(buf, 4, 4)
        /\ GetTimestampDifferenceMicroseconds(packet) = WireDigits(buf, 8, 4)
        /\ GetWndSize(packet) = WireDigits(buf, 12, 4)
        /\ GetSeqNr(packet) = WireDigits(buf, 16, 2)
        /\ NumOf(GetSeqNr(packet)) = 256 * At(buf, 16) + At(buf, 17)
        /\ GetAckNr(packet) = WireDigits(buf, 18, 2)
        /\ NumOf(GetAckNr(packet)) = 256 * At(buf, 18) + At(buf, 19)

C11_FieldCodec == [](C11_Parsed) /\ [][C11_Setters]_vars

C11_Witness ==
    /\ last = "set_wnd_size"
    /\ origin = "parsed"
    /\ pc = "ready"
    /\ NumOf(GetWndSize(packet)) = 15270793
    /\ Slice(ToBytes(packet), 12, 16) = <<0, 233, 3, 137>>
    /\ Slice(buf, 12, 16) = <<0, 16, 0, 0>>
    /\ packet.extensions # <<>>

\* the entries of the chain as the wire gives them: the entry at pos has the
\* type that announce stands for, its length in the byte at pos + 1 and its
\* successor's type in the byte at pos
RECURSIVE WireChain(_, _, _)
WireChain(b, announce, pos) ==
    IF announce = 0 \/ pos + 2 > Len(b) \/ pos + 2 + At(b, pos + 1) > Len(b) THEN <<>>
    ELSE <<[ty |-> IF announce = 1 THEN SelectiveAck ELSE Unknown(announce),
            data |-> [k \in 1..At(b, pos + 1) |-> b[pos + 2 + k]]]>>
            \o WireChain(b, At(b, pos), pos + 2 + At(b, pos + 1))

\* the offset behind the last entry of the chain
RECURSIVE WireEnd(_, _, _)
WireEnd(b, announce, pos) ==
    IF announce = 0 \/ pos + 2 > Len(b) \/ pos + 2 + At(b, pos + 1) > Len(b) THEN pos
    ELSE WireEnd(b, At(b, pos), pos + 2 + At(b, pos + 1))

C13_HeaderChainConsistent ==
    HasPacket =>
        /\ packet.header.extension = 0 <=> packet.extensions = <<>>
        /\ packet.extensions # <<>> =>
              packet.header.extension = ExtensionTypeToU8(packet.extensions[1].ty)

\* C14: encode then decode. For every packet built by new() or with_payload()
\* and changed by header setters, set_type and set_sack calls whose argument
\* length is a positive multiple of 4 (256 bytes and more included),
\* Packet::try_from of its to_bytes succeeds and gives the same header field
\* values, the same extensions (types and data, in order) and the same payload.
C14_EncodeDecode ==
    (pc = "encoded" /\ origin \in {"new", "with_payload"}) =>
        LET r == TryFrom(out)
        IN  /\ r.ok
            /\ r.packet.header = packet.header
            /\ GetSeqNr(r.packet) = GetSeqNr(packet)
            /\ HeaderGetType(r.packet.header) = HeaderGetType(packet.header)
            /\ r.packet.extensions = packet.extensions
            /\ r.packet.payload = packet.payload

====
